---------------------------- MODULE Spec2Model ----------------------------
(***************************************************************************)
(* MomentumScout backend: the player search / find-players service of      *)
(* src/backend.py and the older search-only service of src/src/backend.py. *)
(*                                                                         *)
(* Numbers are modelled exactly (integers and decimal fractions) where the *)
(* code uses binary floating point; rounding is round-half-to-even as      *)
(* Python's round() does on the exact value.  Strings that the code        *)
(* inspects character by character (queries, names, filter keys) are       *)
(* sequences of one-character strings.                                     *)
(***************************************************************************)
EXTENDS Integers, Sequences, FiniteSets, TLC

VARIABLES
    variant,        \* which backend file is running: "main" or "legacy"
    player_data,    \* the global DataFrame: [cols : set of names, rows : Seq(row)]
    loaded,         \* the DataFrame as initialize_app left it (history)
    request,        \* the request being answered ([op |-> "none"]: the server is idle)
    frame,          \* the handler's selected rows (indices into player_data.rows)
    scored_sorted,  \* api_find_players: <<score, row index>> in ranked order
    response        \* the response to it / the helper's result

vars == <<variant, player_data, loaded, request, frame, scored_sorted, response>>

----------------------------------------------------------------------------
(* Cell values: a number n / 10^e, a string, NaN, or None.                 *)

Dec(n, e) == [t |-> "num", n |-> n, e |-> e, s |-> <<>>]
Num(n) == Dec(n, 0)
Str(s) == [t |-> "str", n |-> 0, e |-> 0, s |-> s]
NaN == [t |-> "nan", n |-> 0, e |-> 0, s |-> <<>>]
None == [t |-> "none", n |-> 0, e |-> 0, s |-> <<>>]

\* Python truthiness, as used by `x or default`
Truthy(v) ==
    CASE v.t = "num" -> v.n # 0
      [] v.t = "str" -> v.s # <<>>
      [] v.t = "nan" -> TRUE
      [] OTHER -> FALSE

\* `a or b`
Or(a, b) == IF Truthy(a) THEN a ELSE b

\* row.get(col, default) on a row of the DataFrame
RowGet(row, col, default) == IF col \in DOMAIN row THEN row[col] ELSE default

----------------------------------------------------------------------------
(* Strings                                                                 *)

UpperLetters == <<"A","B","C","D","E","F","G","H","I","J","K","L","M",
                  "N","O","P","Q","R","S","T","U","V","W","X","Y","Z">>
LowerLetters == <<"a","b","c","d","e","f","g","h","i","j","k","l","m",
                  "n","o","p","q","r","s","t","u","v","w","x","y","z">>

LowerChar(c) ==
    IF \E i \in 1..26 : UpperLetters[i] = c
    THEN LowerLetters[CHOOSE i \in 1..26 : UpperLetters[i] = c]
    ELSE c

UpperChar(c) ==
    IF \E i \in 1..26 : LowerLetters[i] = c
    THEN UpperLetters[CHOOSE i \in 1..26 : LowerLetters[i] = c]
    ELSE c

\* str.lower() / str.upper()
Lower(s) == [i \in 1..Len(s) |-> LowerChar(s[i])]
Upper(s) == [i \in 1..Len(s) |-> UpperChar(s[i])]

\* str.strip(): leading and trailing blanks removed
Strip(s) ==
    IF \A i \in 1..Len(s) : s[i] = " " THEN <<>>
    ELSE LET lo == CHOOSE i \in 1..Len(s) :
                       s[i] # " " /\ \A j \in 1..(i-1) : s[j] = " "
             hi == CHOOSE i \in 1..Len(s) :
                       s[i] # " " /\ \A j \in (i+1)..Len(s) : s[j] = " "
         IN  SubSeq(s, lo, hi)

\* `sub in s` on plain strings
HasSub(s, sub) ==
    \E i \in 0..(Len(s) - Len(sub)) :
        \A j \in 1..Len(sub) : s[i + j] = sub[j]

\* The characters of a string as one TLA+ string (a column name)
RECURSIVE Join(_)
Join(s) == IF s = <<>> THEN "" ELSE Head(s) \o Join(Tail(s))

\* re.compile(pat): of the metacharacters a query is built from here, an
\* opening parenthesis that is never closed is a pattern error
RegexError(pat) == \E i \in 1..Len(pat) : pat[i] = "("

\* re.search(pat, text) for a pattern of literals and "." (any character)
RegexSearch(pat, text) ==
    \E i \in 0..(Len(text) - Len(pat)) :
        \A j \in 1..Len(pat) : pat[j] = "." \/ pat[j] = text[i + j]

\* str(n) for a whole number n >= 0
RECURSIVE Digits(_)
Digits(n) ==
    LET d == <<"0","1","2","3","4","5","6","7","8","9">>[(n % 10) + 1]
    IN  IF n < 10 THEN <<d>> ELSE Append(Digits(n \div 10), d)

\* Series.astype(str) on one cell
AsStr(v) ==
    CASE v.t = "str" -> v.s
      [] v.t = "nan" -> <<"n","a","n">>
      [] v.t = "none" -> <<"N","o","n","e">>
      [] OTHER -> IF v.n < 0 THEN <<"-">> \o Digits(-v.n) ELSE Digits(v.n)

----------------------------------------------------------------------------
(* Arithmetic                                                              *)

Max(a, b) == IF a >= b THEN a ELSE b
Min(a, b) == IF a <= b THEN a ELSE b

\* round(n / d) to the nearest integer, ties to the even one (d # 0)
RoundDiv(n, d) ==
    LET nn == IF d < 0 THEN -n ELSE n
        dd == IF d < 0 THEN -d ELSE d
        q == nn \div dd
        r == nn % dd
    IN  IF 2 * r < dd THEN q
        ELSE IF 2 * r > dd THEN q + 1
        ELSE IF q % 2 = 0 THEN q ELSE q + 1

\* <<floor(n * 10^k / d), remainder>> for d > 0, by long division
RECURSIVE LongDiv(_, _, _)
LongDiv(n, d, k) ==
    IF k = 0 THEN <<n \div d, n % d>>
    ELSE LET p == LongDiv(n, d, k - 1)
         IN  <<p[1] * 10 + ((p[2] * 10) \div d), (p[2] * 10) % d>>

\* round(n / d, k) in units of 10^-k, ties to even (d # 0)
RoundDivScaled(n, d, k) ==
    LET nn == IF d < 0 THEN -n ELSE n
        dd == IF d < 0 THEN -d ELSE d
        p == LongDiv(nn, dd, k)
    IN  IF 2 * p[2] < dd THEN p[1]
        ELSE IF 2 * p[2] > dd THEN p[1] + 1
        ELSE IF p[1] % 2 = 0 THEN p[1] ELSE p[1] + 1

----------------------------------------------------------------------------
(* Configuration tables and the pure helpers of src/backend.py             *)

PositionCodes == {"GK", "CB", "LB", "RB", "CDM", "CM", "CAM", "LW", "RW", "ST", "CF"}

GK_WEIGHTS ==
    [a \in {"goalkeeping_diving", "goalkeeping_handling", "goalkeeping_kicking",
            "goalkeeping_positioning", "goalkeeping_reflexes"} |-> 20]

POSITION_WEIGHTS ==
    [p \in PositionCodes |->
        CASE p = "GK" -> GK_WEIGHTS
          [] p = "CB" -> [defending |-> 50, physic |-> 20, pace |-> 10,
                          passing |-> 10, dribbling |-> 10]
          [] p \in {"LB", "RB"} -> [pace |-> 30, passing |-> 20, defending |-> 15,
                                    physic |-> 10, dribbling |-> 25]
          [] p = "CDM" -> [defending |-> 40, passing |-> 20, physic |-> 15,
                           pace |-> 15, dribbling |-> 10]
          [] p = "CM" -> [passing |-> 30, dribbling |-> 20, defending |-> 15,
                          pace |-> 15, shooting |-> 10, physic |-> 10]
          [] p = "CAM" -> [passing |-> 30, dribbling |-> 25, shooting |-> 25,
                           pace |-> 10, physic |-> 10]
          [] p \in {"LW", "RW"} -> [pace |-> 35, dribbling |-> 30, shooting |-> 20,
                                    passing |-> 15]
          [] p = "ST" -> [shooting |-> 40, pace |-> 25, dribbling |-> 20,
                          physic |-> 15, movement_acceleration |-> 5]
          [] p = "CF" -> [shooting |-> 30, passing |-> 25, dribbling |-> 25,
                          pace |-> 20, movement_acceleration |-> 5]]

\* A lookup whose fallback profile is ST instead of CM
BaseWeightsST(position) ==
    IF position \in DOMAIN POSITION_WEIGHTS
    THEN POSITION_WEIGHTS[position] ELSE POSITION_WEIGHTS["ST"]

\* POSITION_WEIGHTS.get(position, POSITION_WEIGHTS.get('CM', {}))
BaseWeights(position) ==
    IF position \in DOMAIN POSITION_WEIGHTS
    THEN POSITION_WEIGHTS[position] ELSE POSITION_WEIGHTS["CM"]

\* The keys of user_weights whose value is not None
Overriding(user_weights) == {k \in DOMAIN user_weights : user_weights[k].t # "none"}

\* float(v) on an override weight raises for a string that is no number
WeightRaises(user_weights) ==
    \E k \in Overriding(user_weights) : user_weights[k].t = "str"

\* base_weights after the override loop: base_weights[k] = float(v)
MergedWeights(position, user_weights) ==
    LET base == BaseWeights(position)
        over == Overriding(user_weights)
    IN  [k \in (DOMAIN base) \cup over |->
            IF k \in over THEN user_weights[k].n ELSE base[k]]

RECURSIVE SumOver(_, _)
SumOver(f, S) ==
    IF S = {} THEN 0
    ELSE LET k == CHOOSE x \in S : TRUE IN f[k] + SumOver(f, S \ {k})

\* total_w, with the guards against an empty profile and a zero total
TotalWeight(w) ==
    LET t == IF DOMAIN w = {} THEN 1 ELSE SumOver(w, DOMAIN w)
    IN  IF t = 0 THEN 1 ELSE t

\* val_num: float(val), 0.0 for None and for a value float() rejects.  The
\* scoring columns of the modelled sheets hold no NaN.
ValNum(row, attr) ==
    LET val == RowGet(row, attr, Num(0))
    IN  IF val.t = "num" THEN val.n ELSE 0

\* compute_score_for_player, in units of 10^-4 (round(score * 100, 4))
compute_score_for_player(row, position, user_weights) ==
    LET w == MergedWeights(position, user_weights)
        total_w == TotalWeight(w)
        weighted == [a \in DOMAIN w |-> ValNum(row, a) * w[a]]
    IN  RoundDivScaled(SumOver(weighted, DOMAIN w) * 100, 99 * total_w, 4)

years_to_project(age) ==
    IF age <= 20 THEN 5
    ELSE IF age <= 25 THEN 4
    ELSE IF age <= 30 THEN 3
    ELSE IF age <= 35 THEN 2
    ELSE 1

\* growth per year, in hundredths
Growth(age) ==
    IF age <= 20 THEN 35
    ELSE IF age <= 25 THEN 20
    ELSE IF age <= 30 THEN 12
    ELSE IF age <= 35 THEN 7
    ELSE 3

\* int(row.get(col) or 0)
IntOr0(row, col) == Or(RowGet(row, col, None), Num(0)).n

(* cur_value is kept exactly: ip + 0.f1 f2 ... with the fraction written   *)
(* in base 100, most significant digit first.                              *)
RECURSIVE MulFrac(_, _)
MulFrac(f, m) ==
    IF f = <<>> THEN <<0, <<>>>>
    ELSE LET rest == MulFrac(Tail(f), m)
             t == Head(f) * m + rest[1]
         IN  <<t \div 100, <<t % 100>> \o rest[2]>>

\* cur_value = max(0, cur_value * (1 + growth)) for cur_value >= 0
GrowValue(v, g) ==
    LET mf == MulFrac(v.frac, 100 + g)
        whole == v.ip * (100 + g) + mf[1]
    IN  [ip |-> whole \div 100, frac |-> <<whole % 100>> \o mf[2]]

\* int(round(cur_value))
RoundValue(v) ==
    IF v.frac = <<>> \/ v.frac[1] < 50 THEN v.ip
    ELSE IF v.frac[1] > 50 \/ \E i \in 2..Len(v.frac) : v.frac[i] # 0 THEN v.ip + 1
    ELSE IF v.ip % 2 = 0 THEN v.ip ELSE v.ip + 1

\* cur_value when each pass restarts from the rounded figure of the pass before
RECURSIVE ValueAfterRounded(_, _, _)
ValueAfterRounded(value, g, y) ==
    IF y = 0 THEN [ip |-> Max(0, value), frac |-> <<>>]
    ELSE GrowValue([ip |-> RoundValue(ValueAfterRounded(value, g, y - 1)),
                    frac |-> <<>>], g)

\* cur_value after y passes of the loop
RECURSIVE ValueAfter(_, _, _)
ValueAfter(value, g, y) ==
    IF y = 0 THEN [ip |-> Max(0, value), frac |-> <<>>]
    ELSE GrowValue(ValueAfter(value, g, y - 1), g)

\* cur_ovr, times `years`, when the loop adds the yearly step without the
\* ceiling of 99
RECURSIVE OvrAfterUncapped(_, _, _, _)
OvrAfterUncapped(ovr, pot, years, y) ==
    IF y = 0 THEN ovr * years
    ELSE OvrAfterUncapped(ovr, pot, years, y - 1) + (IF pot > ovr THEN pot - ovr ELSE 0)

\* cur_ovr after y passes of the loop, times `years`
RECURSIVE OvrAfter(_, _, _, _)
OvrAfter(ovr, pot, years, y) ==
    IF y = 0 THEN ovr * years
    ELSE Min(99 * years,
             OvrAfter(ovr, pot, years, y - 1) + (IF pot > ovr THEN pot - ovr ELSE 0))

\* The point the loop appends in pass y; projected_overall in tenths
\* (round(cur_ovr, 1))
ProjectionPoint(row, years, y) ==
    LET ovr == IntOr0(row, "overall")
        pot == Or(RowGet(row, "potential", None), Num(ovr)).n
        age == IntOr0(row, "age")
        value == IntOr0(row, "value_eur")
    IN  [year_offset |-> y,
         projected_overall |-> RoundDiv(OvrAfter(ovr, pot, years, y) * 10, years),
         projected_value_eur |-> RoundValue(ValueAfter(value, Growth(age), y))]

\* A loop over range(1, years): the last year is never appended
project_player_short(row, years) ==
    [y \in 1..(years - 1) |-> ProjectionPoint(row, years, y)]

\* project_player: one point per pass of `for y in range(1, years+1)`
project_player(row, years) ==
    [y \in 1..years |-> ProjectionPoint(row, years, y)]

\* A range whose upper end ignores the current value
negotiation_range_nomax(current_value, projected_value) ==
    IF current_value.t = "none" \/ current_value.n <= 0
    THEN [min_offer |-> 0, max_offer |-> 0]
    ELSE [min_offer |-> RoundDiv(current_value.n * 7, 10),
          max_offer |-> RoundDiv(projected_value * 105, 100)]

\* negotiation_range(current_value, projected_value); current_value may be None
negotiation_range(current_value, projected_value) ==
    IF current_value.t = "none" \/ current_value.n <= 0
    THEN [min_offer |-> 0, max_offer |-> 0]
    ELSE [min_offer |-> RoundDiv(current_value.n * 7, 10),
          max_offer |-> RoundDiv(Max(projected_value, current_value.n) * 105, 100)]

----------------------------------------------------------------------------
(* The spreadsheet and initialize_app                                      *)

NUMERIC_COLS == {"overall", "potential", "age", "value_eur", "pace", "shooting",
                 "passing", "dribbling", "defending", "physic", "wage_eur"}

NAME_COLS == <<"short_name", "long_name", "player_name">>

\* The six face skills, acceleration, and one value for the five goalkeeping columns
Skills(pace, shooting, passing, dribbling, defending, acc, gk) ==
    [pace |-> Num(pace), shooting |-> Num(shooting), passing |-> Num(passing),
     dribbling |-> Num(dribbling), defending |-> Num(defending),
     movement_acceleration |-> Num(acc),
     goalkeeping_diving |-> Num(gk), goalkeeping_handling |-> Num(gk),
     goalkeeping_kicking |-> Num(gk), goalkeeping_positioning |-> Num(gk),
     goalkeeping_reflexes |-> Num(gk)]

Core(age, overall, potential, wage) ==
    [age |-> age, overall |-> Num(overall), potential |-> potential,
     wage_eur |-> Num(wage)]

\* A sheet with every column the handlers read; players of every age bracket,
\* missing names and clubs, cells that are no numbers
MixedSheet ==
    << [short_name |-> Str(<<"A","b">>), long_name |-> Str(<<"A","b"," ","N","a">>),
        club_name |-> Str(<<"X">>), value_eur |-> Num(100), physic |-> Num(60)]
         @@ Core(Num(19), 70, Num(85), 10) @@ Skills(80, 60, 70, 75, 40, 82, 10),
       [short_name |-> NaN, long_name |-> Str(<<"B","a","n">>),
        club_name |-> NaN, value_eur |-> Num(1000000), physic |-> Num(70)]
         @@ Core(Num(23), 80, Num(90), 2000) @@ Skills(70, 80, 85, 84, 50, 72, 12),
       [short_name |-> Str(<<"n","b">>), long_name |-> NaN,
        club_name |-> Str(<<"Y">>), value_eur |-> Str(<<"f","r","e","e">>),
        physic |-> Str(<<"x">>)]
         @@ Core(Str(<<"?">>), 75, NaN, 0) @@ Skills(70, 80, 85, 84, 50, 72, 12),
       [short_name |-> Str(<<"B",".","a">>), long_name |-> Str(<<"B","a">>),
        club_name |-> Str(<<"Y">>), value_eur |-> Num(15), physic |-> Num(88)]
         @@ Core(Num(33), 82, Num(80), 7) @@ Skills(55, 50, 65, 60, 86, 50, 9),
       [short_name |-> Str(<<"B","a">>), long_name |-> Str(<<"B","a"," ","b">>),
        club_name |-> NaN, value_eur |-> Num(5), physic |-> Num(75)]
         @@ Core(Num(36), 78, Num(78), 3) @@ Skills(60, 77, 70, 72, 35, 61, 8),
       [short_name |-> Str(<<"a","n">>), long_name |-> Str(<<"a","n">>),
        club_name |-> Str(<<"X">>), value_eur |-> Num(0), physic |-> Num(40)]
         @@ Core(Num(40), 60, Num(60), 0) @@ Skills(30, 20, 40, 30, 45, 28, 77) >>

\* A squad of veterans (all older than 35) listed under player_name, several
\* with equal attributes
Veteran(name, age, value, club, s) ==
    [player_name |-> Str(name), long_name |-> Str(name), club_name |-> club,
     value_eur |-> Num(value), physic |-> Num(s)]
      @@ Core(Num(age), 70, Num(70), 1) @@ Skills(s, s, s, s, s, s, s)

VeteranSheet ==
    << Veteran(<<"a","a">>, 36, 10, Str(<<"X">>), 50),
       Veteran(<<"a","b">>, 37, 35, Str(<<"X">>), 80),
       Veteran(<<"b","a">>, 38, 0, Str(<<"Y">>), 50),
       Veteran(<<"b","b">>, 39, 7, NaN, 80),
       Veteran(<<"a","n">>, 40, 25, Str(<<"Y">>), 99),
       Veteran(<<"n","a">>, 41, 1, Str(<<"Y">>), 50),
       Veteran(<<"n","n">>, 42, 3, Str(<<"X">>), 80) >>

\* A sheet with no name column, no value_eur and physicality instead of physic
SparseSheet ==
    << [club_name |-> Str(<<"a","b">>), physicality |-> Num(66)]
         @@ Core(Num(37), 71, Num(71), 4) @@ Skills(50, 50, 50, 50, 50, 50, 50),
       [club_name |-> Str(<<"B","n">>), physicality |-> Num(70)]
         @@ Core(Num(22), 64, Num(80), 2) @@ Skills(61, 62, 63, 64, 65, 66, 67) >>

RawSheets == {MixedSheet, VeteranSheet, SparseSheet}

\* pd.to_numeric(col, errors='coerce').fillna(0) on one cell
ToNumericFill0(v) == IF v.t = "num" THEN v ELSE Num(0)

\* initialize_app of the running variant: the DataFrame it leaves in player_data
InitializeApp(raw, v) ==
    LET cols == DOMAIN raw[1]
        coerced == [i \in 1..Len(raw) |->
                      [c \in cols |-> IF c \in NUMERIC_COLS
                                      THEN ToNumericFill0(raw[i][c]) ELSE raw[i][c]]]
        added == IF v = "legacy" THEN {"physic", "value_eur"} \ cols ELSE {}
    IN  [cols |-> cols \cup added,
         rows |-> [i \in 1..Len(raw) |->
                     [c \in cols \cup added |->
                        IF c \in cols THEN coerced[i][c]
                        ELSE IF c = "physic" /\ "physicality" \in cols
                             THEN coerced[i]["physicality"]
                             ELSE Num(0)]]]

----------------------------------------------------------------------------
(* Response objects                                                        *)

SEARCH_LIMIT == 20
LEGACY_SEARCH_LIMIT == 10
POOL_LIMIT == 50
TOP_N == 5

\* seq[:n]
Take(seq, n) == SubSeq(seq, 1, Min(n, Len(seq)))

\* The top-level keys whose value is a scalar; the others hold a list or a dict
ScalarKeys == {"short_name", "club_position", "overall", "potential", "value_eur",
               "player_face_url", "min_value_eur", "max_value_eur", "momentum_score"}

\* yearly_wage_gbp = weekly_wage * 52 if weekly_wage else 0
YearlyWage(row) ==
    LET weekly_wage == RowGet(row, "wage_eur", Num(0))
    IN  IF Truthy(weekly_wage) THEN Num(weekly_wage.n * 52) ELSE Num(0)

\* row.get(col) or ''
StrOrEmpty(row, col) == Or(RowGet(row, col, None), Str(<<>>))

\* The fields api_search_player and api_find_players build for one row
EnrichedPlayer(row) ==
    LET age == IntOr0(row, "age")
        projections == project_player(row, years_to_project(age))
        last_proj_value == IF projections # <<>>
                           THEN projections[Len(projections)].projected_value_eur
                           ELSE IntOr0(row, "value_eur")
        neg == negotiation_range(Num(IntOr0(row, "value_eur")), last_proj_value)
    IN  [short_name |-> Or(Or(RowGet(row, "short_name", None),
                              RowGet(row, "player_name", None)),
                           Str(<<"N","/","A">>)),
         club_position |-> StrOrEmpty(row, "club_position"),
         overall |-> Num(IntOr0(row, "overall")),
         potential |-> Num(IntOr0(row, "potential")),
         value_eur |-> Num(IntOr0(row, "value_eur")),
         player_face_url |-> StrOrEmpty(row, "player_face_url"),
         min_value_eur |-> Num(neg.min_offer),
         max_value_eur |-> Num(neg.max_offer),
         projections |-> projections,
         full_attributes |->
            [Overall |-> Num(IntOr0(row, "overall")),
             Potential |-> Num(IntOr0(row, "potential")),
             Age |-> Num(age),
             Pace |-> Num(IntOr0(row, "pace")),
             Shooting |-> Num(IntOr0(row, "shooting")),
             Passing |-> Num(IntOr0(row, "passing")),
             Dribbling |-> Num(IntOr0(row, "dribbling")),
             Defending |-> Num(IntOr0(row, "defending")),
             Physicality |-> Num(IntOr0(row, "physic")),
             Club |-> StrOrEmpty(row, "club_name"),
             League |-> StrOrEmpty(row, "league_name"),
             Wage |-> YearlyWage(row)]]

\* api_find_players adds the score and the negotiation dict
ScoredPlayer(row, score) ==
    LET p == EnrichedPlayer(row)
    IN  p @@ [momentum_score |-> score,
              negotiation |-> [min_offer |-> p.min_value_eur.n,
                               max_offer |-> p.max_value_eur.n]]

\* The player object of the legacy api_search_player
LegacyPlayer(row) ==
    [short_name |-> RowGet(row, "short_name", Str(<<"N","/","A">>)),
     club_position |-> RowGet(row, "club_position", Str(<<"N","/","A">>)),
     overall |-> Num(RowGet(row, "overall", Num(0)).n),
     potential |-> Num(RowGet(row, "potential", Num(0)).n),
     value_eur |-> Num(RowGet(row, "value_eur", Num(0)).n),
     full_attributes |->
        [Overall |-> RowGet(row, "overall", None),
         Potential |-> RowGet(row, "potential", None),
         Age |-> RowGet(row, "age", None),
         Pace |-> RowGet(row, "pace", None),
         Shooting |-> RowGet(row, "shooting", None),
         Passing |-> RowGet(row, "passing", None),
         Dribbling |-> RowGet(row, "dribbling", None),
         Defending |-> RowGet(row, "defending", None),
         Physicality |-> RowGet(row, "physic", None),
         Club |-> RowGet(row, "club_name", None),
         League |-> RowGet(row, "league_name", None),
         Value |-> RowGet(row, "value_eur", None),
         Wage |-> YearlyWage(row)],
     player_face_url |-> RowGet(row, "player_face_url", Str(<<"u","r","l">>)),
     min_value_eur |-> Dec(row["value_eur"].n * 8, 1),
     max_value_eur |-> Dec(row["value_eur"].n * 12, 1)]

\* sanitize_player_data evaluates `... or pd.isna(v) or ...` on every top-level
\* value.  pd.isna of a list is an array with one bool per element, and the
\* truth value of an array of two or more elements raises ValueError.
SanitizeRaises(players_list) ==
    \E i \in 1..Len(players_list) :
        /\ "projections" \in DOMAIN players_list[i]
        /\ Len(players_list[i].projections) >= 2

\* One cleaned player: a top-level NaN or None becomes None; a list or a
\* dict is copied as it is (pd.isna of a dict is False), nested values included
SanitizePlayer(player) ==
    [k \in DOMAIN player |->
        IF k \in ScalarKeys /\ player[k].t \in {"nan", "none"}
        THEN None ELSE player[k]]

sanitize_player_data(players_list) ==
    [i \in 1..Len(players_list) |-> SanitizePlayer(players_list[i])]

\* sanitize_player_data of the legacy service: the same cases, and no list
\* among the values
legacy_sanitize_player_data(players_list) ==
    [i \in 1..Len(players_list) |-> SanitizePlayer(players_list[i])]

Resp(status, kind, players) ==
    [status |-> status, kind |-> kind, players |-> players, value |-> None]

Returned(value) ==
    [status |-> 0, kind |-> "return", players |-> <<>>, value |-> value]

----------------------------------------------------------------------------
(* Name search                                                             *)

\* Series.astype(str).str.lower().str.contains(q) on one cell: a regex search
CellContains(q, cell) == RegexSearch(q, Lower(AsStr(cell)))

\* name_cols = [c for c in [...] if c in df.columns]
NameCols(df) == {c \in {NAME_COLS[i] : i \in 1..Len(NAME_COLS)} : c \in df.cols}

\* The row labels of a frame, in store order (df.index)
Index(n) == [i \in 1..n |-> i]

\* mask of api_search_player (src/backend.py): the name columns present, or
\* every column when there is none
SearchMask(df, q, i) ==
    IF NameCols(df) # {}
    THEN \E c \in NameCols(df) : CellContains(q, df.rows[i][c])
    ELSE \E c \in df.cols : CellContains(q, df.rows[i][c])

\* query = (payload.get("player_name") or payload.get("name") or "").strip()
SearchQuery(payload) ==
    Strip(Or(Or(payload.player_name, payload.name), Str(<<>>)).s)

\* api_search_player of src/backend.py: [frame, response]
SearchOutcome(df, payload) ==
    LET query == SearchQuery(payload)
        q == Lower(query)
        results == Take(SelectSeq(Index(Len(df.rows)), LAMBDA i : SearchMask(df, q, i)),
                        SEARCH_LIMIT)
        out == [k \in 1..Len(results) |-> EnrichedPlayer(df.rows[results[k]])]
    IN  IF query = <<>>
        THEN [frame |-> <<>>, response |-> Resp(200, "list", <<>>)]
        ELSE IF RegexError(q)
        THEN [frame |-> <<>>, response |-> Resp(500, "error", <<>>)]
        ELSE IF SanitizeRaises(out)
        THEN [frame |-> results, response |-> Resp(500, "error", <<>>)]
        ELSE [frame |-> results,
              response |-> Resp(200, "list", sanitize_player_data(out))]

\* name = (payload.get("player_name") or "").strip().lower()
LegacySearchQuery(payload) ==
    Lower(Strip(Or(payload.player_name, Str(<<>>)).s))

\* api_search_player of src/src/backend.py: [frame, response].  No handler
\* catches an exception there, so the framework answers 500.
LegacySearchOutcome(df, payload) ==
    LET name == LegacySearchQuery(payload)
        results == Take(SelectSeq(Index(Len(df.rows)),
                                LAMBDA i : \E c \in NameCols(df) :
                                               CellContains(name, df.rows[i][c])),
                        LEGACY_SEARCH_LIMIT)
        out == [k \in 1..Len(results) |-> LegacyPlayer(df.rows[results[k]])]
    IN  IF name = <<>>
        THEN [frame |-> <<>>, response |-> Resp(400, "error", <<>>)]
        ELSE IF NameCols(df) = {} \/ RegexError(name)
        THEN [frame |-> <<>>, response |-> Resp(500, "error", <<>>)]
        ELSE [frame |-> results,
              response |-> Resp(200, "list", legacy_sanitize_player_data(out))]

----------------------------------------------------------------------------
(* Find players                                                            *)

\* The column a filter key stands for
ResolveColumn(key) ==
    LET target_col == Lower(key)
    IN  IF HasSub(target_col, <<"v","a","l","u","e">>) THEN "value_eur"
        ELSE IF HasSub(target_col, <<"o","v","e","r","a","l","l">>) THEN "overall"
        ELSE IF HasSub(target_col, <<"a","g","e">>) THEN "age"
        ELSE Join(target_col)

\* isinstance(rng, (list, tuple)) and len(rng) >= 2
WellFormed(rng) == rng.list /\ Len(rng.items) >= 2

\* A comparison that leaves the bounds themselves out
InRangeExclusive(v, lo, hi) == v > lo /\ v < hi

\* (df[target_col].astype(float) >= lo) & (df[target_col].astype(float) <= hi)
InRange(v, lo, hi) == v >= lo /\ v <= hi

\* One pass of the filter loop over the rows idx: [raised, idx]
ApplyFilter(df, idx, f) ==
    IF ~WellFormed(f.rng) THEN [raised |-> FALSE, idx |-> idx]
    ELSE IF f.rng.items[1].t # "num" \/ f.rng.items[2].t # "num"
    THEN [raised |-> TRUE, idx |-> idx]
    ELSE LET lo == f.rng.items[1].n
             hi == f.rng.items[2].n
             target_col == ResolveColumn(f.key)
         IN  IF target_col \notin df.cols THEN [raised |-> FALSE, idx |-> idx]
             ELSE IF \E k \in 1..Len(idx) : df.rows[idx[k]][target_col].t = "str"
             THEN [raised |-> TRUE, idx |-> idx]
             ELSE [raised |-> FALSE,
                   idx |-> SelectSeq(idx, LAMBDA i :
                              /\ df.rows[i][target_col].t = "num"
                              /\ InRange(df.rows[i][target_col].n, lo, hi))]

\* The whole loop: it stops at the first filter that raises
RECURSIVE ApplyFilters(_, _, _)
ApplyFilters(df, idx, filters) ==
    IF filters = <<>> THEN [raised |-> FALSE, idx |-> idx]
    ELSE LET one == ApplyFilter(df, idx, Head(filters))
         IN  IF one.raised THEN one ELSE ApplyFilters(df, one.idx, Tail(filters))

\* position = (payload.get("club_position") or "CM").upper()
RequestPosition(payload) ==
    Join(Upper(Or(payload.club_position, Str(<<"C","M">>)).s))

\* The try/except around compute_score_for_player: a failure scores 0
RowScore(row, position, user_weights) ==
    IF WeightRaises(user_weights) THEN 0
    ELSE compute_score_for_player(row, position, user_weights)

\* sorted(scored, key=lambda x: x[0], reverse=True): stable
RECURSIVE SortedDesc(_)
SortedDesc(scored) ==
    IF scored = <<>> THEN <<>>
    ELSE LET rest == SortedDesc(SubSeq(scored, 1, Len(scored) - 1))
             x == scored[Len(scored)]
             k == Cardinality({j \in 1..Len(rest) : rest[j][1] >= x[1]})
         IN  SubSeq(rest, 1, k) \o <<x>> \o SubSeq(rest, k + 1, Len(rest))

\* The global after the handler ran, had it filtered player_data itself
StoreFilteredInPlace(store, idx) ==
    [cols |-> store.cols, rows |-> [k \in 1..Len(idx) |-> store.rows[idx[k]]]]

\* df = player_data.copy(): the handler filters its own copy and the global
\* keeps every row
StoreAfterFiltering(store, idx) == store

\* api_find_players: [frame, scored_sorted, response]
FindOutcome(df, payload) ==
    LET position == RequestPosition(payload)
        filtered == ApplyFilters(df, [i \in 1..Len(df.rows) |-> i], payload.filters)
        scored == [k \in 1..Len(filtered.idx) |->
                     <<RowScore(df.rows[filtered.idx[k]], position, payload.weights),
                       filtered.idx[k]>>]
        ranked == SortedDesc(scored)
        pool == Take(ranked, POOL_LIMIT)
        players_out == [k \in 1..Len(pool) |->
                          ScoredPlayer(df.rows[pool[k][2]], Dec(pool[k][1], 4))]
    IN  IF filtered.raised
        THEN [frame |-> filtered.idx, scored_sorted |-> <<>>,
              response |-> Resp(200, "players", <<>>)]
        ELSE IF SanitizeRaises(Take(players_out, TOP_N))
        THEN [frame |-> filtered.idx, scored_sorted |-> ranked,
              response |-> Resp(500, "players", <<>>)]
        ELSE [frame |-> filtered.idx, scored_sorted |-> ranked,
              response |-> Resp(200, "players",
                                sanitize_player_data(Take(players_out, TOP_N)))]

----------------------------------------------------------------------------
(* Inputs                                                                  *)

MaxQueryLen == 2
MaxFilters == 2
MaxYears == 5

QueryChars == {"a", "B", "n", ".", "(", " "}

Queries == UNION {[1..n -> QueryChars] : n \in 0..MaxQueryLen}

\* A JSON body carrying the query under player_name, under name, or not at all
SearchPayloads ==
    {[player_name |-> None, name |-> None]}
      \cup {[player_name |-> Str(q), name |-> None] : q \in Queries}
      \cup {[player_name |-> None, name |-> Str(q)] : q \in Queries}

Pair(lo, hi) == [list |-> TRUE, items |-> <<Num(lo), Num(hi)>>]

KeyAge == <<"a","g","e">>

FilterChoices ==
    { [key |-> KeyAge, rng |-> Pair(36, 36)],
      [key |-> KeyAge, rng |-> Pair(23, 40)],
      [key |-> KeyAge, rng |-> Pair(40, 36)],
      [key |-> KeyAge, rng |-> [list |-> FALSE, items |-> <<Num(36)>>]],
      [key |-> KeyAge, rng |-> [list |-> TRUE, items |-> <<Num(36)>>]],
      [key |-> KeyAge, rng |-> [list |-> TRUE, items |-> <<Str(<<"x">>), Num(40)>>]],
      [key |-> <<"O","v","e","r","a","l","l">>, rng |-> Pair(70, 80)],
      [key |-> <<"w","a","g","e","_","e","u","r">>, rng |-> Pair(0, 37)],
      [key |-> <<"V","a","l","u","e">>, rng |-> Pair(1, 100)],
      [key |-> <<"p","a","c","e">>, rng |-> Pair(50, 70)],
      [key |-> <<"s","t","a","m","i","n","a">>, rng |-> Pair(0, 1)],
      [key |-> <<"l","o","n","g","_","n","a","m","e">>, rng |-> Pair(0, 1)] }

\* The filters object: up to MaxFilters entries, in the order of the body,
\* no key twice
FilterLists ==
    UNION {{fs \in [1..n -> FilterChoices] :
               \A i, j \in 1..n : i # j => fs[i].key # fs[j].key}
           : n \in 0..MaxFilters}

FindPositions == {None, Str(<<"c","m">>), Str(<<"s","t">>), Str(<<"x","x">>)}

FindWeights ==
    { <<>>,
      [pace |-> Num(50), passing |-> None],
      [passing |-> Str(<<"x">>)],
      [shooting |-> Num(-40)] }

FindPayloads ==
    [club_position : FindPositions, filters : FilterLists, weights : FindWeights]

ScoreAttrs ==
    UNION {DOMAIN POSITION_WEIGHTS[p] : p \in PositionCodes}

FaceSkills == {"pace", "shooting", "passing", "dribbling", "defending", "physic"}

\* Records with every scoring attribute at 0 or 99, one at 57 throughout,
\* one with no attribute at all
ScoreRows ==
    {[a \in ScoreAttrs |-> IF a \in FaceSkills
                           THEN (IF a \in S THEN Num(99) ELSE Num(0))
                           ELSE Num(g)] : S \in SUBSET FaceSkills, g \in {0, 99}}
      \cup {[a \in ScoreAttrs |-> Num(57)], [a \in {} |-> Num(0)]}

ScorePositions == PositionCodes \cup {"XX", "cm", ""}

ScoreWeights ==
    { <<>>,
      [a \in ScoreAttrs |-> Num(0)],
      [pace |-> Num(50), passing |-> None],
      [defending |-> Num(5), goalkeeping_diving |-> Num(60)],
      [shooting |-> Num(-40)],
      [passing |-> Num(-70), movement_acceleration |-> Num(0)] }

ProjRows ==
    {[overall |-> Num(o), potential |-> pt, age |-> Num(a), value_eur |-> Num(v)] :
        o \in {0, 80, 95, 99},
        pt \in {None, Num(0), Num(90), Num(99), Num(120)},
        a \in {18, 23, 28, 33, 40},
        v \in {-5, 0, 1, 10, 1000000}}

NegValues == {-5, 0, 1, 2, 5, 15, 25, 35, 50, 100, 999, 1000000}

----------------------------------------------------------------------------
(* The service                                                             *)

Init ==
    /\ variant \in {"main", "legacy"}
    /\ \E raw \in RawSheets :
          /\ player_data = InitializeApp(raw, variant)
          /\ loaded = InitializeApp(raw, variant)
    /\ request = [op |-> "none"]
    /\ frame = <<>>
    /\ scored_sorted = <<>>
    /\ response = Resp(0, "none", <<>>)

\* POST /api/search_player (src/backend.py)
ApiSearchPlayer ==
    /\ variant = "main"
    /\ request.op = "none"
    /\ \E payload \in SearchPayloads :
          LET r == SearchOutcome(player_data, payload)
          IN  /\ request' = [op |-> "search_player", payload |-> payload]
              /\ frame' = r.frame
              /\ response' = r.response
    /\ scored_sorted' = <<>>
    /\ UNCHANGED <<variant, player_data, loaded>>

\* POST /api/search_player (src/src/backend.py)
LegacyApiSearchPlayer ==
    /\ variant = "legacy"
    /\ request.op = "none"
    /\ \E payload \in SearchPayloads :
          LET r == LegacySearchOutcome(player_data, payload)
          IN  /\ request' = [op |-> "search_player", payload |-> payload]
              /\ frame' = r.frame
              /\ response' = r.response
    /\ scored_sorted' = <<>>
    /\ UNCHANGED <<variant, player_data, loaded>>

\* POST /api/find_players (src/backend.py)
ApiFindPlayers ==
    /\ variant = "main"
    /\ request.op = "none"
    /\ \E payload \in FindPayloads :
          LET r == FindOutcome(player_data, payload)
          IN  /\ request' = [op |-> "find_players", payload |-> payload]
              /\ frame' = r.frame
              /\ scored_sorted' = r.scored_sorted
              /\ response' = r.response
              /\ player_data' = StoreAfterFiltering(player_data, r.frame)
    /\ UNCHANGED <<variant, loaded>>

\* A direct call of compute_score_for_player with numeric or None weights
CallComputeScore ==
    /\ variant = "main"
    /\ request.op = "none"
    /\ \E row \in ScoreRows, position \in ScorePositions, w \in ScoreWeights :
          /\ request' = [op |-> "compute_score_for_player", row |-> row,
                         position |-> position, user_weights |-> w]
          /\ response' = Returned(compute_score_for_player(row, position, w))
    /\ frame' = <<>>
    /\ scored_sorted' = <<>>
    /\ UNCHANGED <<variant, player_data, loaded>>

\* A direct call of project_player
CallProjectPlayer ==
    /\ variant = "main"
    /\ request.op = "none"
    /\ \E row \in ProjRows, years \in 0..MaxYears :
          /\ request' = [op |-> "project_player", row |-> row, years |-> years]
          /\ response' = Returned(project_player(row, years))
    /\ frame' = <<>>
    /\ scored_sorted' = <<>>
    /\ UNCHANGED <<variant, player_data, loaded>>

\* A direct call of negotiation_range
CallNegotiationRange ==
    /\ variant = "main"
    /\ request.op = "none"
    /\ \E cv \in {None} \cup {Num(v) : v \in NegValues}, pv \in NegValues :
          /\ request' = [op |-> "negotiation_range", current_value |-> cv,
                         projected_value |-> pv]
          /\ response' = Returned(negotiation_range(cv, pv))
    /\ frame' = <<>>
    /\ scored_sorted' = <<>>
    /\ UNCHANGED <<variant, player_data, loaded>>

\* The response is sent and the handler's locals are gone: the server waits
\* for the next request with the global as the handler left it
Respond ==
    /\ request.op # "none"
    /\ request' = [op |-> "none"]
    /\ frame' = <<>>
    /\ scored_sorted' = <<>>
    /\ response' = Resp(0, "none", <<>>)
    /\ UNCHANGED <<variant, player_data, loaded>>

Next ==
    \/ Respond
    \/ ApiSearchPlayer
    \/ LegacyApiSearchPlayer
    \/ ApiFindPlayers
    \/ CallComputeScore
    \/ CallProjectPlayer
    \/ CallNegotiationRange

Spec == Init /\ [][Next]_vars

----------------------------------------------------------------------------
(* Claims                                                                  *)

IsCall(op) == request.op = op

\* The row a player of a response was built from
FrameRow(k) == player_data.rows[frame[k]]

(* C1: compute_score_for_player returns a value in [0, 100] for each of the *)
(* 11 position codes, every record with attribute values in 0..99 (missing *)
(* ones counting as 0) and every set of override weights.  Scores are in   *)
(* units of 10^-4.                                                         *)
C1_ScoreWithinRange ==
    (IsCall("compute_score_for_player") /\ request.position \in PositionCodes)
        => (response.value >= 0 /\ response.value <= 1000000)

\* The same bound for override weights that are all >= 0 or None
C1_RangeForNonNegativeWeights ==
    (/\ IsCall("compute_score_for_player")
     /\ \A k \in DOMAIN request.user_weights : request.user_weights[k].n >= 0)
        => (response.value >= 0 /\ response.value <= 1000000)

(* C2: a position that is none of the 11 profile keys is scored exactly as *)
(* CM is, and a find-players request with no position is scored with the   *)
(* CM profile.                                                             *)
C2_UnknownPositionScoredAsCM ==
    /\ (IsCall("compute_score_for_player") /\ request.position \notin PositionCodes)
          => response.value =
                compute_score_for_player(request.row, "CM", request.user_weights)
    /\ (/\ IsCall("find_players")
        /\ \/ request.payload.club_position = None
           \/ RequestPosition(request.payload) \notin PositionCodes)
          => \A k \in 1..Len(scored_sorted) :
                scored_sorted[k][1] =
                    RowScore(player_data.rows[scored_sorted[k][2]], "CM",
                             request.payload.weights)

\* A find-players request without a position whose listed players carry the
\* CM score, which is not the score another profile gives
C2_Witness ==
    /\ IsCall("find_players")
    /\ request.payload.club_position = None
    /\ response.status = 200
    /\ response.players # <<>>
    /\ response.players[1].momentum_score =
          Dec(compute_score_for_player(player_data.rows[scored_sorted[1][2]], "CM",
                                       request.payload.weights), 4)
    /\ response.players[1].momentum_score #
          Dec(compute_score_for_player(player_data.rows[scored_sorted[1][2]], "GK",
                                       request.payload.weights), 4)

(* C3: project_player(record, years) returns exactly `years` points whose  *)
(* year_offset values are 1, 2, ..., years in that order; none for 0.      *)
C3_ProjectionLengthAndOffsets ==
    IsCall("project_player")
        => /\ Len(response.value) = request.years
           /\ \A y \in 1..request.years : response.value[y].year_offset = y
           /\ (request.years = 0 => response.value = <<>>)

C3_Witness ==
    /\ IsCall("project_player")
    /\ request.years = MaxYears
    /\ Len(response.value) = MaxYears
    /\ response.value[MaxYears].year_offset = MaxYears

(* C4: negotiation_range returns two non-negative integers with            *)
(* min_offer <= max_offer, both 0 when the current value is missing or     *)
(* <= 0; every player of a search or find-players response of              *)
(* src/backend.py has min_value_eur <= max_value_eur.                      *)
C4_NegotiationRangeOrdered ==
    /\ IsCall("negotiation_range")
          => /\ response.value.min_offer >= 0
             /\ response.value.min_offer <= response.value.max_offer
             /\ (request.current_value.t = "none" \/ request.current_value.n <= 0)
                   => (response.value.min_offer = 0 /\ response.value.max_offer = 0)
    /\ (variant = "main" /\ request.op \in {"search_player", "find_players"})
          => \A k \in 1..Len(response.players) :
                /\ response.players[k].min_value_eur.n >= 0
                /\ response.players[k].min_value_eur.n
                      <= response.players[k].max_value_eur.n

\* A call whose projection lies below the current value
C4_Witness ==
    /\ IsCall("negotiation_range")
    /\ request.current_value.t = "num"
    /\ request.current_value.n > request.projected_value
    /\ request.projected_value > 0
    /\ response.value.min_offer > 0
    /\ response.value.max_offer > response.value.min_offer

\* The rows with a name field that holds the query as a plain,
\* case-insensitive substring, in store order, cut to the first SEARCH_LIMIT
SubstringMatches(df, query) ==
    Take(SelectSeq(Index(Len(df.rows)),
                 LAMBDA i : \E c \in NameCols(df) :
                     /\ df.rows[i][c].t = "str"
                     /\ HasSub(Lower(df.rows[i][c].s), Lower(query))),
         SEARCH_LIMIT)

(* C5: for a non-blank query the search of src/backend.py answers with     *)
(* exactly the records one of whose name fields contains the query as a    *)
(* case-insensitive substring, in store order, cut to the first 20.        *)
C5_SearchReturnsSubstringMatches ==
    (/\ IsCall("search_player")
     /\ variant = "main"
     /\ NameCols(player_data) # {}
     /\ SearchQuery(request.payload) # <<>>)
        => LET expected == SubstringMatches(player_data, SearchQuery(request.payload))
           IN  /\ response.status = 200
               /\ response.kind = "list"
               /\ frame = expected
               /\ Len(response.players) = Len(expected)
               /\ \A k \in 1..Len(expected) :
                     response.players[k].overall = 
                        Num(IntOr0(player_data.rows[expected[k]], "overall"))

\* The request carries no query: player_name and name are missing, empty or blank
BlankQuery(payload) ==
    /\ Strip(Or(payload.player_name, Str(<<>>)).s) = <<>>
    /\ Strip(Or(payload.name, Str(<<>>)).s) = <<>>

(* C6: in every variant of the search handler a request whose query is     *)
(* missing, empty or only whitespace gets an empty result sequence with a  *)
(* success status, never an error status.                                  *)
C6_BlankQueryGivesEmptySuccess ==
    (IsCall("search_player") /\ BlankQuery(request.payload))
        => /\ response.status = 200
           /\ response.kind = "list"
           /\ response.players = <<>>

\* Every filter is a two-element list of numbers and names a column that is
\* missing or holds no text
RangesWellFormed(df, filters) ==
    \A k \in 1..Len(filters) :
        /\ filters[k].rng.list
        /\ Len(filters[k].rng.items) = 2
        /\ filters[k].rng.items[1].t = "num"
        /\ filters[k].rng.items[2].t = "num"
        /\ ResolveColumn(filters[k].key) \in df.cols
              => \A i \in 1..Len(df.rows) :
                    df.rows[i][ResolveColumn(filters[k].key)].t # "str"

\* The rows whose value lies within the bounds of every filter that names a
\* column of the store
WithinAllRanges(df, filters) ==
    SelectSeq(Index(Len(df.rows)),
            LAMBDA i : \A k \in 1..Len(filters) :
                LET col == ResolveColumn(filters[k].key)
                IN  col \in df.cols
                      => /\ df.rows[i][col].t = "num"
                         /\ filters[k].rng.items[1].n <= df.rows[i][col].n
                         /\ df.rows[i][col].n <= filters[k].rng.items[2].n)

(* C7: with well-formed [low, high] ranges the candidate set of a          *)
(* find-players request is exactly the records whose value on each         *)
(* resolved column lies in [low, high], bounds included; a filter whose    *)
(* resolved column is not in the store leaves the set unchanged.           *)
C7_CandidatesAreRowsWithinRanges ==
    (IsCall("find_players") /\ RangesWellFormed(player_data, request.payload.filters))
        => frame = WithinAllRanges(player_data, request.payload.filters)

\* A request with the one-point range [36, 36] on age and a range on a column
\* the store lacks: only the players aged 36 are candidates
C7_Witness ==
    /\ IsCall("find_players")
    /\ RangesWellFormed(player_data, request.payload.filters)
    /\ Len(request.payload.filters) = 2
    /\ request.payload.filters[1] = [key |-> KeyAge, rng |-> Pair(36, 36)]
    /\ ResolveColumn(request.payload.filters[2].key) \notin player_data.cols
    /\ frame # <<>>
    /\ Len(frame) < Len(player_data.rows)
    /\ \A k \in 1..Len(frame) : FrameRow(k)["age"].n = 36

\* How many candidates rank ahead of candidate i: a higher score, or the
\* same score and an earlier place in the store
Ahead(df, i, position, weights) ==
    Cardinality({k \in 1..Len(frame) :
        LET si == RowScore(df.rows[i], position, weights)
            sj == RowScore(df.rows[frame[k]], position, weights)
        IN  sj > si \/ (sj = si /\ frame[k] < i)})

(* C8: a find-players response lists at most 5 players, by descending      *)
(* momentum score with ties in store order, and they are the 5             *)
(* highest-ranked records of the whole filtered candidate set.             *)
C8_ResponseListsTopFive ==
    (IsCall("find_players") /\ RangesWellFormed(player_data, request.payload.filters))
        => LET position == RequestPosition(request.payload)
               weights == request.payload.weights
               n == Min(TOP_N, Len(frame))
           IN  /\ Len(response.players) = n
               /\ \A k \in 1..n :
                     \E j \in 1..Len(frame) :
                        /\ Ahead(player_data, frame[j], position, weights) = k - 1
                        /\ response.players[k].momentum_score =
                              Dec(RowScore(FrameRow(j), position, weights), 4)
                        /\ response.players[k].overall =
                              Num(IntOr0(FrameRow(j), "overall"))

\* A finite number, a string or null
Clean(v) == v.t \in {"num", "str", "none"}

(* C9: every value of a search or find-players response, at the top level  *)
(* of a player object and inside its projections and full_attributes, is a *)
(* finite number, a string or null: a NaN of a stored record never reaches *)
(* the output.                                                             *)
C9_NoNaNInResponse ==
    (request.op \in {"search_player", "find_players"})
        => \A k \in 1..Len(response.players) :
              LET p == response.players[k]
              IN  /\ \A f \in (DOMAIN p) \cap ScalarKeys : Clean(p[f])
                  /\ \A a \in DOMAIN p.full_attributes : Clean(p.full_attributes[a])

RECURSIVE ToDigits(_)
ToDigits(n) == IF n = 0 THEN <<>> ELSE <<n % 100>> \o ToDigits(n \div 100)

RECURSIVE FromDigits(_)
FromDigits(d) == IF d = <<>> THEN 0 ELSE Head(d) + 100 * FromDigits(Tail(d))

\* The digits of d * m + carry
RECURSIVE TimesSmall(_, _, _)
TimesSmall(d, m, carry) ==
    IF d = <<>>
    THEN IF carry = 0 THEN <<>>
         ELSE <<carry % 100>> \o TimesSmall(<<>>, m, carry \div 100)
    ELSE LET t == Head(d) * m + carry
         IN  <<t % 100>> \o TimesSmall(Tail(d), m, t \div 100)

\* The digits of max(0, value) * (100 + g)^y
RECURSIVE ScaledValue(_, _, _)
ScaledValue(value, g, y) ==
    IF y = 0 THEN ToDigits(Max(0, value))
    ELSE TimesSmall(ScaledValue(value, g, y - 1), 100 + g, 0)

Digit(d, i) == IF i <= Len(d) THEN d[i] ELSE 0

\* d / 100^y for y >= 1, rounded to the nearest integer, ties to the even one
RoundShift(d, y) ==
    LET hi == FromDigits(SubSeq(d, y + 1, Len(d)))
        top == Digit(d, y)
        below == \E i \in 1..(y - 1) : Digit(d, i) # 0
    IN  IF top < 50 THEN hi
        ELSE IF top > 50 \/ below THEN hi + 1
        ELSE IF hi % 2 = 0 THEN hi ELSE hi + 1

(* C11, as the code has it: the growth rate compounds on the running value *)
(* as it is, and only the reported figure is rounded: for every year y,    *)
(* projected_value_eur[y] = round(max(0, value) * (1 + growth)^y).         *)
C11_ValueCompoundsUnrounded ==
    IsCall("project_player")
        => \A y \in 1..request.years :
              response.value[y].projected_value_eur =
                  RoundShift(ScaledValue(IntOr0(request.row, "value_eur"),
                                         Growth(IntOr0(request.row, "age")), y), y)

(* C11, as stated: each year's projected value is the growth rate applied  *)
(* to the integer reported for the year before: for every y >= 2,          *)
(* projected_value_eur[y] = round(max(0, projected_value_eur[y-1] *        *)
(* (1 + growth))).                                                         *)
C11_ValueCompoundsOnRounded ==
    IsCall("project_player")
        => \A y \in 2..request.years :
              response.value[y].projected_value_eur =
                  RoundDiv(Max(0, response.value[y - 1].projected_value_eur
                                     * (100 + Growth(IntOr0(request.row, "age")))),
                           100)

\* A player aged 18 worth 10: 13.5 after a year, reported as 14, and 18.225
\* after two, reported as 18, where 14 * 1.35 = 18.9 would give 19
C11_Witness ==
    /\ IsCall("project_player")
    /\ request.years >= 2
    /\ IntOr0(request.row, "age") = 18
    /\ IntOr0(request.row, "value_eur") = 10
    /\ response.value[1].projected_value_eur = 14
    /\ response.value[2].projected_value_eur = 18
    /\ RoundDiv(response.value[1].projected_value_eur * 135, 100) = 19

\* The overall and the potential project_player reads from the row of a call
CallOverall == IntOr0(request.row, "overall")
CallPotential == Or(RowGet(request.row, "potential", None), Num(CallOverall)).n

(* C12: for a record with overall in 0..99 and years >= 1 the              *)
(* projected_overall values (in tenths here) never exceed 99 and never     *)
(* decrease from a year to the next; with potential missing or <= overall  *)
(* each equals the current overall, and with potential > overall the last  *)
(* year's equals min(99, potential).                                       *)
C12_OverallCappedAndMonotone ==
    (/\ IsCall("project_player")
     /\ request.years >= 1
     /\ CallOverall \in 0..99)
        => LET po == [y \in 1..request.years |-> response.value[y].projected_overall]
               potential == RowGet(request.row, "potential", None)
           IN  /\ \A y \in 1..request.years : po[y] <= 990
               /\ \A y \in 2..request.years : po[y - 1] <= po[y]
               /\ (potential = None \/ potential.n <= CallOverall)
                     => \A y \in 1..request.years : po[y] = 10 * CallOverall
               /\ (potential # None /\ potential.n > CallOverall)
                     => po[request.years] = 10 * Min(99, potential.n)

\* From 95 towards a potential of 120 over three years: the ceiling is met
\* in the first year and kept
C12_Witness ==
    /\ IsCall("project_player")
    /\ request.years = 3
    /\ CallOverall = 95
    /\ CallPotential = 120
    /\ response.value[1].projected_overall = 990
    /\ response.value[3].projected_overall = 990

\* A range of bad shape: not a list, or not of two elements
BadShape(rng) == ~rng.list \/ Len(rng.items) # 2

\* A range of two elements, one of them not a number
BadBound(rng) ==
    /\ rng.list
    /\ Len(rng.items) = 2
    /\ \E i \in 1..2 : rng.items[i].t # "num"

\* The answer of a request that was cut short: no players, status 200
ShortCircuited ==
    /\ response.status = 200
    /\ response.kind = "players"
    /\ response.players = <<>>

(* C13: a find-players request with a filter that fails to resolve or      *)
(* apply (a range of bad shape, such as one that is not a two-element      *)
(* list, or a bound that is not a number) is answered with an empty        *)
(* players list and a success status, whatever its other filters are: the  *)
(* bad filter is never just skipped.                                       *)
C13_BadFilterShortCircuits ==
    (/\ IsCall("find_players")
     /\ \E k \in 1..Len(request.payload.filters) :
           \/ BadShape(request.payload.filters[k].rng)
           \/ BadBound(request.payload.filters[k].rng))
        => ShortCircuited

\* The part of C13 the handler keeps: a bound that is not a number cuts the
\* request short
C13_BadBoundShortCircuits ==
    (/\ IsCall("find_players")
     /\ \E k \in 1..Len(request.payload.filters) :
           BadBound(request.payload.filters[k].rng))
        => ShortCircuited

\* A range of bad shape is passed over: the request is answered from the
\* candidates its other filters leave
C13_BadShapeIsSkipped ==
    (/\ IsCall("find_players")
     /\ \A k \in 1..Len(request.payload.filters) :
           ~BadBound(request.payload.filters[k].rng))
        => LET kept == SelectSeq(request.payload.filters,
                                 LAMBDA f : ~BadShape(f.rng))
           IN  response =
                  FindOutcome(player_data,
                              [request.payload EXCEPT !.filters = kept]).response


============================================================================
